---------------------------- MODULE Spec2Model ----------------------------
(***************************************************************************)
(* A model of mlx/io/safetensors.cpp: the safetensors container codec.     *)
(*                                                                         *)
(* Streams are sequences of bytes (0..255).  Strings (tensor names, dtype  *)
(* tags, JSON keys) are sequences of their ASCII codes, so that the JSON   *)
(* header is real text whose length is the length written in the first 8   *)
(* bytes of the container.                                                 *)
(***************************************************************************)
EXTENDS Integers, Sequences, FiniteSets, TLC

(***************************************************************************)
(* Bounds of the model.                                                    *)
(***************************************************************************)
\* the largest number of tensors handed to save_safetensors
MaxTensors == 2
\* the largest number of entries of the metadata dictionary handed to save
MaxMeta == 1

(***************************************************************************)
(* Characters and the strings the source spells out.                       *)
(***************************************************************************)
Ch == [quote |-> 34, comma |-> 44, minus |-> 45, dot |-> 46, slash |-> 47,
       zero |-> 48, nine |-> 57, colon |-> 58, lbracket |-> 91,
       backslash |-> 92, rbracket |-> 93, lbrace |-> 123, rbrace |-> 125,
       space |-> 32]

LitNull == <<110, 117, 108, 108>>
LitTrue == <<116, 114, 117, 101>>
LitFalse == <<102, 97, 108, 115, 101>>

ST_F16 == <<70, 49, 54>>
ST_BF16 == <<66, 70, 49, 54>>
ST_F32 == <<70, 51, 50>>
ST_BOOL == <<66, 79, 79, 76>>
ST_I8 == <<73, 56>>
ST_I16 == <<73, 49, 54>>
ST_I32 == <<73, 51, 50>>
ST_I64 == <<73, 54, 52>>
ST_U8 == <<85, 56>>
ST_U16 == <<85, 49, 54>>
ST_U32 == <<85, 51, 50>>
ST_U64 == <<85, 54, 52>>
ST_C64 == <<67, 54, 52>>

\* "__metadata__", "dtype", "shape", "data_offsets"
K_metadata == <<95, 95, 109, 101, 116, 97, 100, 97, 116, 97, 95, 95>>
K_dtype == <<100, 116, 121, 112, 101>>
K_shape == <<115, 104, 97, 112, 101>>
K_data_offsets == <<100, 97, 116, 97, 95, 111, 102, 102, 115, 101, 116, 115>>

(***************************************************************************)
(* JSON values (nlohmann::json).  An object is a std::map: its members are *)
(* kept sorted by key, a key occurring once.                               *)
(***************************************************************************)
JNull == [t |-> "null"]
JBool(b) == [t |-> "boolean", b |-> b]
JInt(n) == [t |-> "int", n |-> n]
\* a number with a fraction: ip "." fr, fr a non-empty sequence of digits
JFloat(ip, fr) == [t |-> "float", ip |-> ip, fr |-> fr]
JStr(s) == [t |-> "string", s |-> s]
JArr(es) == [t |-> "array", es |-> es]
JObj(ms) == [t |-> "object", ms |-> ms]

Min(x, y) == IF x < y THEN x ELSE y

\* std::less<std::string>: lexicographic order of the bytes
RECURSIVE BytesLess(_, _)
BytesLess(s, u) ==
  IF u = <<>> THEN FALSE
  ELSE IF s = <<>> THEN TRUE
  ELSE IF s[1] # u[1] THEN s[1] < u[1]
  ELSE BytesLess(Tail(s), Tail(u))

\* j[k] = v on a JSON value that is null or an object: null becomes an
\* object, an existing key is overwritten, a new key is inserted in order
RECURSIVE MembersSet(_, _, _)
MembersSet(ms, k, v) ==
  IF ms = <<>> THEN <<[k |-> k, v |-> v]>>
  ELSE IF ms[1].k = k THEN <<[k |-> k, v |-> v]>> \o Tail(ms)
  ELSE IF BytesLess(k, ms[1].k) THEN <<[k |-> k, v |-> v]>> \o ms
  ELSE <<ms[1]>> \o MembersSet(Tail(ms), k, v)

JsonSet(j, k, v) ==
  JObj(MembersSet(IF j.t = "object" THEN j.ms ELSE <<>>, k, v))

HasKey(j, k) == j.t = "object" /\ \E i \in 1..Len(j.ms) : j.ms[i].k = k

Lookup(j, k) == j.ms[CHOOSE i \in 1..Len(j.ms) : j.ms[i].k = k].v

(***************************************************************************)
(* json::dump(): compact text, members in key order.                       *)
(***************************************************************************)
RECURSIVE DumpNat(_)
DumpNat(n) ==
  IF n < 10 THEN <<Ch.zero + n>>
  ELSE DumpNat(n \div 10) \o <<Ch.zero + (n % 10)>>

DumpInt(n) == IF n < 0 THEN <<Ch.minus>> \o DumpNat(0 - n) ELSE DumpNat(n)

RECURSIVE DumpChars(_)
DumpChars(s) ==
  IF s = <<>> THEN <<>>
  ELSE (IF s[1] = Ch.quote \/ s[1] = Ch.backslash
          THEN <<Ch.backslash, s[1]>>
          ELSE <<s[1]>>) \o DumpChars(Tail(s))

DumpString(s) == <<Ch.quote>> \o DumpChars(s) \o <<Ch.quote>>

RECURSIVE DumpDigits(_)
DumpDigits(ds) ==
  IF ds = <<>> THEN <<>> ELSE <<Ch.zero + ds[1]>> \o DumpDigits(Tail(ds))

RECURSIVE Dump(_), DumpElems(_), DumpMembers(_)
Dump(j) ==
  CASE j.t = "null" -> LitNull
    [] j.t = "boolean" -> IF j.b THEN LitTrue ELSE LitFalse
    [] j.t = "int" -> DumpInt(j.n)
    [] j.t = "float" -> DumpInt(j.ip) \o <<Ch.dot>> \o DumpDigits(j.fr)
    [] j.t = "string" -> DumpString(j.s)
    [] j.t = "array" -> <<Ch.lbracket>> \o DumpElems(j.es) \o <<Ch.rbracket>>
    [] j.t = "object" -> <<Ch.lbrace>> \o DumpMembers(j.ms) \o <<Ch.rbrace>>

DumpElems(es) ==
  IF es = <<>> THEN <<>>
  ELSE Dump(es[1]) \o
       (IF Len(es) = 1 THEN <<>> ELSE <<Ch.comma>> \o DumpElems(Tail(es)))

DumpMembers(ms) ==
  IF ms = <<>> THEN <<>>
  ELSE DumpString(ms[1].k) \o <<Ch.colon>> \o Dump(ms[1].v) \o
       (IF Len(ms) = 1 THEN <<>> ELSE <<Ch.comma>> \o DumpMembers(Tail(ms)))

(***************************************************************************)
(* json::parse(): a recursive-descent parser of the text.  Every parsing   *)
(* operator takes the text b and a position p and yields [ok |-> FALSE]    *)
(* or [ok |-> TRUE, v |-> the value, p |-> the position after it].         *)
(* Escapes other than \" \\ \/ and exponents do not occur in the inputs    *)
(* of this model and are not accepted.                                     *)
(***************************************************************************)
Fail == [ok |-> FALSE]
Ok(v, p) == [ok |-> TRUE, v |-> v, p |-> p]

IsDigit(c) == c >= Ch.zero /\ c <= Ch.nine
IsSpace(c) == c \in {32, 9, 10, 13}

RECURSIVE SkipSpace(_, _)
SkipSpace(b, p) ==
  IF p <= Len(b) /\ IsSpace(b[p]) THEN SkipSpace(b, p + 1) ELSE p

HasLit(b, p, lit) ==
  /\ p + Len(lit) - 1 <= Len(b)
  /\ SubSeq(b, p, p + Len(lit) - 1) = lit

\* p is after the opening quote
RECURSIVE ScanString(_, _, _)
ScanString(b, p, acc) ==
  IF p > Len(b) THEN Fail
  ELSE IF b[p] = Ch.quote THEN Ok(acc, p + 1)
  ELSE IF b[p] = Ch.backslash
    THEN IF p + 1 <= Len(b) /\ b[p + 1] \in {Ch.quote, Ch.backslash, Ch.slash}
           THEN ScanString(b, p + 2, Append(acc, b[p + 1]))
           ELSE Fail
  ELSE IF b[p] < Ch.space THEN Fail
  ELSE ScanString(b, p + 1, Append(acc, b[p]))

RECURSIVE ScanNat(_, _, _)
ScanNat(b, p, acc) ==
  IF p <= Len(b) /\ IsDigit(b[p])
    THEN ScanNat(b, p + 1, 10 * acc + (b[p] - Ch.zero))
    ELSE Ok(acc, p)

RECURSIVE ScanDigits(_, _, _)
ScanDigits(b, p, acc) ==
  IF p <= Len(b) /\ IsDigit(b[p])
    THEN ScanDigits(b, p + 1, Append(acc, b[p] - Ch.zero))
    ELSE Ok(acc, p)

\* p is at '-' or at a digit
ParseNumber(b, p) ==
  LET neg == b[p] = Ch.minus
      q == IF neg THEN p + 1 ELSE p
  IN IF q > Len(b) \/ ~IsDigit(b[q]) THEN Fail
     ELSE IF b[q] = Ch.zero /\ q + 1 <= Len(b) /\ IsDigit(b[q + 1]) THEN Fail
     ELSE LET ip == ScanNat(b, q, 0)
              sip == IF neg THEN 0 - ip.v ELSE ip.v
          IN IF ip.p <= Len(b) /\ b[ip.p] = Ch.dot
               THEN LET fr == ScanDigits(b, ip.p + 1, <<>>)
                    IN IF fr.v = <<>> THEN Fail
                       ELSE Ok(JFloat(sip, fr.v), fr.p)
               ELSE Ok(JInt(sip), ip.p)

RECURSIVE ParseValue(_, _), ParseElems(_, _, _), ParseMembers(_, _, _)
ParseValue(b, p0) ==
  LET p == SkipSpace(b, p0)
  IN IF p > Len(b) THEN Fail
     ELSE LET c == b[p]
          IN CASE c = Ch.lbrace ->
                    LET q == SkipSpace(b, p + 1)
                    IN IF q <= Len(b) /\ b[q] = Ch.rbrace
                         THEN Ok(JObj(<<>>), q + 1)
                         ELSE ParseMembers(b, q, <<>>)
               [] c = Ch.lbracket ->
                    LET q == SkipSpace(b, p + 1)
                    IN IF q <= Len(b) /\ b[q] = Ch.rbracket
                         THEN Ok(JArr(<<>>), q + 1)
                         ELSE ParseElems(b, q, <<>>)
               [] c = Ch.quote ->
                    LET s == ScanString(b, p + 1, <<>>)
                    IN IF s.ok THEN Ok(JStr(s.v), s.p) ELSE Fail
               [] c = Ch.minus \/ IsDigit(c) -> ParseNumber(b, p)
               [] HasLit(b, p, LitNull) -> Ok(JNull, p + Len(LitNull))
               [] HasLit(b, p, LitTrue) -> Ok(JBool(TRUE), p + Len(LitTrue))
               [] HasLit(b, p, LitFalse) -> Ok(JBool(FALSE), p + Len(LitFalse))
               [] OTHER -> Fail

\* the elements of an array, p at the first of those left
ParseElems(b, p, acc) ==
  LET e == ParseValue(b, p)
  IN IF ~e.ok THEN Fail
     ELSE LET q == SkipSpace(b, e.p)
          IN IF q > Len(b) THEN Fail
             ELSE IF b[q] = Ch.comma THEN ParseElems(b, q + 1, Append(acc, e.v))
             ELSE IF b[q] = Ch.rbracket THEN Ok(JArr(Append(acc, e.v)), q + 1)
             ELSE Fail

\* the members of an object, p at the key of the first of those left; a key
\* met twice keeps its last value
ParseMembers(b, p0, acc) ==
  LET p == SkipSpace(b, p0)
  IN IF p > Len(b) \/ b[p] # Ch.quote THEN Fail
     ELSE LET k == ScanString(b, p + 1, <<>>)
          IN IF ~k.ok THEN Fail
             ELSE LET c == SkipSpace(b, k.p)
                  IN IF c > Len(b) \/ b[c] # Ch.colon THEN Fail
                     ELSE LET e == ParseValue(b, c + 1)
                          IN IF ~e.ok THEN Fail
                             ELSE LET q == SkipSpace(b, e.p)
                                      ms == MembersSet(acc, k.v, e.v)
                                  IN IF q > Len(b) THEN Fail
                                     ELSE IF b[q] = Ch.comma
                                       THEN ParseMembers(b, q + 1, ms)
                                     ELSE IF b[q] = Ch.rbrace
                                       THEN Ok(JObj(ms), q + 1)
                                     ELSE Fail

\* json::parse(first, last): the whole text is one value.  The lexer takes
\* a NUL byte where a token starts for the end of the input.
JsonParse(b) ==
  LET r == ParseValue(b, 1)
      q == IF r.ok THEN SkipSpace(b, r.p) ELSE 0
  IN IF r.ok /\ (q = Len(b) + 1 \/ b[q] = 0) THEN Ok(r.v, q) ELSE Fail


(***************************************************************************)
(* Results of operations that may throw.                                   *)
(***************************************************************************)
Ret(v) == [ok |-> TRUE, v |-> v]
Throw(e) == [ok |-> FALSE, e |-> e]

\* json::items(): the members of an object, the elements of an array under
\* their indices, nothing for null, the value itself under "" otherwise
Items(j) ==
  CASE j.t = "object" -> j.ms
    [] j.t = "array" -> [n \in 1..Len(j.es) |-> [k |-> DumpNat(n - 1), v |-> j.es[n]]]
    [] j.t = "null" -> <<>>
    [] OTHER -> <<[k |-> <<>>, v |-> j]>>

\* json::at(key)
JsonAt(j, k) ==
  IF j.t # "object" THEN Throw("TypeMismatch")
  ELSE IF ~HasKey(j, k) THEN Throw("MissingField")
  ELSE Ret(Lookup(j, k))

\* a conversion that would coerce: any value to its text
ToStdString_Coerce(j) == IF j.t = "string" THEN Ret(j.s) ELSE Ret(Dump(j))

\* the conversion of a json value to std::string
ToStdString(j) == IF j.t = "string" THEN Ret(j.s) ELSE Throw("TypeMismatch")

\* the conversion of a json value to int: numbers and booleans are cast
ToInt(j) ==
  CASE j.t = "int" -> Ret(j.n)
    [] j.t = "float" -> Ret(j.ip)
    [] j.t = "boolean" -> Ret(IF j.b THEN 1 ELSE 0)
    [] OTHER -> Throw("TypeMismatch")

\* the conversion of a json value to size_t (where size_t is the json
\* library's unsigned type, which takes numbers only)
ToSizeT(j) ==
  CASE j.t = "int" -> Ret(j.n)
    [] j.t = "float" -> Ret(j.ip)
    [] OTHER -> Throw("TypeMismatch")

RECURSIVE IntElems(_, _)
IntElems(es, acc) ==
  IF es = <<>> THEN Ret(acc)
  ELSE LET c == ToInt(es[1])
       IN IF c.ok THEN IntElems(Tail(es), Append(acc, c.v)) ELSE c

RECURSIVE SizeTElems(_, _)
SizeTElems(es, acc) ==
  IF es = <<>> THEN Ret(acc)
  ELSE LET c == ToSizeT(es[1])
       IN IF c.ok THEN SizeTElems(Tail(es), Append(acc, c.v)) ELSE c

\* the conversions of a json value to std::vector<int>, std::vector<size_t>
ToIntVector(j) ==
  IF j.t # "array" THEN Throw("TypeMismatch") ELSE IntElems(j.es, <<>>)

ToSizeTVector(j) ==
  IF j.t # "array" THEN Throw("TypeMismatch") ELSE SizeTElems(j.es, <<>>)

(***************************************************************************)
(* Element types and arrays.                                               *)
(***************************************************************************)
Dtypes == {"float32", "bfloat16", "float16", "int64", "int32", "int16", "int8",
           "uint64", "uint32", "uint16", "uint8", "bool_", "complex64"}

\* the width of an element, in bytes
size_of(t) ==
  CASE t \in {"bool_", "int8", "uint8"} -> 1
    [] t \in {"int16", "uint16", "float16", "bfloat16"} -> 2
    [] t \in {"int32", "uint32", "float32"} -> 4
    [] t \in {"int64", "uint64", "complex64"} -> 8

RECURSIVE Product(_)
Product(shape) == IF shape = <<>> THEN 1 ELSE shape[1] * Product(Tail(shape))

\* array::nbytes() of an array of a shape and an element type
nbytes_of(shape, t) == Product(shape) * size_of(t)

\* array::nbytes()
nbytes(arr) == nbytes_of(arr.shape, arr.dtype)

dtype_to_safetensor_str(t) ==
  CASE t = "float32" -> Ret(ST_F32)
    [] t = "bfloat16" -> Ret(ST_BF16)
    [] t = "float16" -> Ret(ST_F16)
    [] t = "int64" -> Ret(ST_I64)
    [] t = "int32" -> Ret(ST_I32)
    [] t = "int16" -> Ret(ST_I16)
    [] t = "int8" -> Ret(ST_I8)
    [] t = "uint64" -> Ret(ST_U64)
    [] t = "uint32" -> Ret(ST_U32)
    [] t = "uint16" -> Ret(ST_U16)
    [] t = "uint8" -> Ret(ST_U8)
    [] t = "bool_" -> Ret(ST_BOOL)
    [] t = "complex64" -> Ret(ST_C64)
    [] OTHER -> Throw("UnsupportedType")

\* a lookup that would take an unknown tag for float32
dtype_from_safetensor_str_Default(str) ==
  IF \E t \in Dtypes : dtype_to_safetensor_str(t).v = str
    THEN Ret(CHOOSE t \in Dtypes : dtype_to_safetensor_str(t).v = str)
    ELSE Ret("float32")

dtype_from_safetensor_str(str) ==
  IF str = ST_F32 THEN Ret("float32")
  ELSE IF str = ST_F16 THEN Ret("float16")
  ELSE IF str = ST_BF16 THEN Ret("bfloat16")
  ELSE IF str = ST_I64 THEN Ret("int64")
  ELSE IF str = ST_I32 THEN Ret("int32")
  ELSE IF str = ST_I16 THEN Ret("int16")
  ELSE IF str = ST_I8 THEN Ret("int8")
  ELSE IF str = ST_U64 THEN Ret("uint64")
  ELSE IF str = ST_U32 THEN Ret("uint32")
  ELSE IF str = ST_U16 THEN Ret("uint16")
  ELSE IF str = ST_U8 THEN Ret("uint8")
  ELSE IF str = ST_BOOL THEN Ret("bool_")
  ELSE IF str = ST_C64 THEN Ret("complex64")
  ELSE Throw("UnknownTypeTag")

(***************************************************************************)
(* Streams.                                                                *)
(***************************************************************************)
\* the 8 bytes of a uint64_t in memory (little-endian)
RECURSIVE LittleEndian(_, _)
LittleEndian(n, k) ==
  IF k = 0 THEN <<>> ELSE <<n % 256>> \o LittleEndian(n \div 256, k - 1)

\* the largest value the model's integers hold: a uint64_t above it is
\* read as this value
U64Cap == 2147483647

\* the uint64_t whose 8 bytes in memory are b
ReadU64(b) ==
  IF (\E k \in 5..8 : b[k] # 0) \/ b[4] >= 128 THEN U64Cap
  ELSE b[1] + 256 * (b[2] + 256 * (b[3] + 256 * b[4]))

\* Reader::read(buf, n) at position pos into a buffer of n zero bytes: the
\* bytes the stream holds, then the buffer's zeros.  Of these zeros only the
\* first is kept: 8-byte reads are completed by ZeroPad, and json::parse
\* stops at the first NUL.
ReadBytes(stream, pos, n) ==
  IF pos + n <= Len(stream) THEN SubSeq(stream, pos + 1, pos + n)
  ELSE SubSeq(stream, pos + 1, Len(stream)) \o <<0>>

ZeroPad(b, n) == [k \in 1..n |-> IF k <= Len(b) THEN b[k] ELSE 0]

(***************************************************************************)
(* The state.                                                              *)
(*   a, metadata, out_good   the arguments of save_safetensors: a is the   *)
(*       unordered_map of arrays as the sequence of its (key, array)       *)
(*       pairs in the map's iteration order, every array                   *)
(*       [shape, dtype, data] with data its bytes                          *)
(*   out_stream              the bytes written to the Writer               *)
(*   parent, offset, i       locals of save_safetensors (i also indexes    *)
(*                           the loop of load_safetensors)                 *)
(*   in_stream, in_good, in_pos   the Reader: its bytes, whether it is     *)
(*                           open and good, the number of bytes read       *)
(*   jsonHeaderLength, header, load_offset, res, metadata_map              *)
(*                           locals of load_safetensors (header is its     *)
(*                           local `metadata`, load_offset its `offset`)   *)
(*   result                  what load_safetensors returned                *)
(*   err                     the exception thrown, "" if none              *)
(*   pc                      the position in save / load                   *)
(***************************************************************************)
VARIABLES a, metadata, out_good, out_stream, parent, offset, i,
          in_stream, in_good, in_pos, jsonHeaderLength, header, load_offset,
          res, metadata_map, result, err, pc

vars == <<a, metadata, out_good, out_stream, parent, offset, i,
          in_stream, in_good, in_pos, jsonHeaderLength, header, load_offset,
          res, metadata_map, result, err, pc>>

saveVars == <<a, metadata, out_good, out_stream, parent, offset>>
loadVars == <<jsonHeaderLength, header, load_offset, res, metadata_map, result>>

kMaxJsonHeaderLength == 100000000

NoResult == [ok |-> FALSE]
EmptyMap == <<>>

\* unordered_map::insert: a key already there keeps its value
MapInsert(m, k, v) == m @@ (k :> v)

(***************************************************************************)
(* save_safetensors(out_stream, a, metadata)                               *)
(***************************************************************************)
\* lines 173-176: json _metadata, filled from the metadata dictionary
RECURSIVE MetaJson(_, _)
MetaJson(md, keys) ==
  IF keys = {} THEN JNull
  ELSE LET k == CHOOSE x \in keys : TRUE
       IN JsonSet(MetaJson(md, keys \ {k}), k, JStr(md[k]))

\* an entry whose end would be the size of the array
ChildEntry_EndIsSize(arr, off) ==
  LET tag == dtype_to_safetensor_str(arr.dtype)
  IN IF ~tag.ok THEN tag
     ELSE Ret(JsonSet(JsonSet(JsonSet(JNull,
                K_dtype, JStr(tag.v)),
                K_shape, JArr([n \in 1..Len(arr.shape) |-> JInt(arr.shape[n])])),
                K_data_offsets, JArr(<<JInt(off), JInt(nbytes(arr))>>)))

\* lines 196-199: the header entry of an array placed at offset off
ChildEntry(arr, off) ==
  LET tag == dtype_to_safetensor_str(arr.dtype)
  IN IF ~tag.ok THEN tag
     ELSE Ret(JsonSet(JsonSet(JsonSet(JNull,
                K_dtype, JStr(tag.v)),
                K_shape, JArr([n \in 1..Len(arr.shape) |-> JInt(arr.shape[n])])),
                K_data_offsets, JArr(<<JInt(off), JInt(off + nbytes(arr))>>)))

\* a check that would let every array through
IsEmptyArray_Never(arr) == FALSE

\* line 191: an array that cannot be serialized
IsEmptyArray(arr) == nbytes(arr) = 0

\* a second pass that would visit a in the opposite order
EmitItem_Reversed(n) == a[Len(a) + 1 - n]

\* line 208: the pair the n-th iteration of the second pass over a visits
EmitItem(n) == a[n]

\* lines 165-187: the stream check, the metadata of the header; contiguous()
\* and eval() leave shape, dtype and bytes of the arrays as they are
SaveBegin ==
  /\ pc = "save"
  /\ IF ~out_good
       THEN /\ err' = "StreamUnavailable"
            /\ pc' = "save_failed"
            /\ UNCHANGED <<parent, offset, i>>
       ELSE /\ parent' = JsonSet(JNull, K_metadata, MetaJson(metadata, DOMAIN metadata))
            /\ offset' = 0
            /\ i' = 1
            /\ pc' = "save_offsets"
            /\ err' = err
  /\ UNCHANGED <<a, metadata, out_good, out_stream, in_stream, in_good, in_pos>>
  /\ UNCHANGED loadVars

\* lines 190-202: one iteration of the offset-assignment pass
SaveOffsets ==
  /\ pc = "save_offsets"
  /\ i <= Len(a)
  /\ LET key == a[i].key
         arr == a[i].arr
         child == ChildEntry(arr, offset)
     IN IF IsEmptyArray(arr)
          THEN /\ err' = "EmptyTensor"
               /\ pc' = "save_failed"
               /\ UNCHANGED <<parent, offset, i>>
        ELSE IF ~child.ok
          THEN /\ err' = child.e
               /\ pc' = "save_failed"
               /\ UNCHANGED <<parent, offset, i>>
        ELSE /\ parent' = JsonSet(parent, key, child.v)
             /\ offset' = offset + nbytes(arr)
             /\ i' = i + 1
             /\ UNCHANGED <<err, pc>>
  /\ UNCHANGED <<a, metadata, out_good, out_stream, in_stream, in_good, in_pos>>
  /\ UNCHANGED loadVars

\* lines 204-207: the header length and the header
SaveWriteHeader ==
  /\ pc = "save_offsets"
  /\ i > Len(a)
  /\ LET hdr == Dump(parent)
         header_len == Len(hdr)
     IN out_stream' = out_stream \o LittleEndian(header_len, 8) \o hdr
  /\ i' = 1
  /\ pc' = "save_data"
  /\ UNCHANGED <<a, metadata, out_good, parent, offset, err,
                 in_stream, in_good, in_pos>>
  /\ UNCHANGED loadVars

\* lines 208-210: one iteration of the byte-emission pass
SaveWriteData ==
  /\ pc = "save_data"
  /\ i <= Len(a)
  /\ out_stream' = out_stream \o EmitItem(i).arr.data
  /\ i' = i + 1
  /\ UNCHANGED <<a, metadata, out_good, parent, offset, err, pc,
                 in_stream, in_good, in_pos>>
  /\ UNCHANGED loadVars

\* line 211
SaveReturn ==
  /\ pc = "save_data"
  /\ i > Len(a)
  /\ pc' = "save_done"
  /\ UNCHANGED <<a, metadata, out_good, out_stream, parent, offset, i, err,
                 in_stream, in_good, in_pos>>
  /\ UNCHANGED loadVars

(***************************************************************************)
(* load_safetensors(in_stream)                                             *)
(***************************************************************************)
\* lines 155-157: a reader is opened on what was written
Reopen ==
  /\ pc = "save_done"
  /\ in_stream' = out_stream
  /\ in_good' = TRUE
  /\ in_pos' = 0
  /\ pc' = "load"
  /\ UNCHANGED <<i, err>>
  /\ UNCHANGED saveVars
  /\ UNCHANGED loadVars

\* a check that would let the limit itself through
HeaderLengthInvalid_LimitAllowed(len) == len <= 0 \/ len > kMaxJsonHeaderLength

\* line 116
HeaderLengthInvalid(len) == len <= 0 \/ len >= kMaxJsonHeaderLength

\* a payload base that would leave out the 8 bytes of the length
PayloadBase_WithoutLength(len) == len

\* line 129
PayloadBase(len) == len + 8

\* a loop that would take the reserved key for an entry
IsMetadataKey_Never(key) == FALSE

\* line 134
IsMetadataKey(key) == key = K_metadata

\* lines 135-137: the items of __metadata__ go to metadata_map
RECURSIVE LoadMetadata(_, _)
LoadMetadata(items, mm) ==
  IF items = <<>> THEN Ret(mm)
  ELSE LET s == ToStdString(items[1].v)
       IN IF ~s.ok THEN s
          ELSE LoadMetadata(Tail(items), MapInsert(mm, items[1].k, s.v))

\* lines 140-149: the lazy array of a header entry, bound to its offset in
\* the stream
LoadEntry(value, base) ==
  LET d == JsonAt(value, K_dtype)
      dtype == IF d.ok THEN ToStdString(d.v) ELSE d
      s == JsonAt(value, K_shape)
      shape == IF s.ok THEN ToIntVector(s.v) ELSE s
      o == JsonAt(value, K_data_offsets)
      data_offsets == IF o.ok THEN ToSizeTVector(o.v) ELSE o
      type == dtype_from_safetensor_str(dtype.v)
  IN IF ~dtype.ok THEN dtype
     ELSE IF ~shape.ok THEN shape
     ELSE IF ~data_offsets.ok THEN data_offsets
     ELSE IF ~type.ok THEN type
     ELSE IF data_offsets.v = <<>> THEN Throw("TypeMismatch")
     ELSE Ret([shape |-> shape.v, dtype |-> type.v,
               offset |-> base + data_offsets.v[1]])

\* lines 107-119: the stream check, the header length
LoadBegin ==
  /\ pc = "load"
  /\ IF ~in_good
       THEN /\ err' = "StreamUnavailable"
            /\ pc' = "load_failed"
            /\ UNCHANGED <<in_pos, jsonHeaderLength>>
       ELSE LET len == ReadU64(ZeroPad(ReadBytes(in_stream, in_pos, 8), 8))
            IN /\ in_pos' = Min(in_pos + 8, Len(in_stream))
               /\ jsonHeaderLength' = len
               /\ IF HeaderLengthInvalid(len)
                    THEN err' = "InvalidHeaderLength" /\ pc' = "load_failed"
                    ELSE err' = err /\ pc' = "load_parse"
  /\ UNCHANGED <<i, in_stream, in_good, header, load_offset, res, metadata_map, result>>
  /\ UNCHANGED saveVars

\* lines 121-131: the header is read and parsed
LoadParse ==
  /\ pc = "load_parse"
  /\ LET rawJson == ReadBytes(in_stream, in_pos, jsonHeaderLength)
         parsed == JsonParse(rawJson)
     IN /\ in_pos' = Min(in_pos + jsonHeaderLength, Len(in_stream))
        /\ IF ~parsed.ok \/ parsed.v.t # "object"
             THEN /\ err' = "MalformedHeader"
                  /\ pc' = "load_failed"
                  /\ UNCHANGED <<header, load_offset, res, metadata_map, i>>
             ELSE /\ header' = parsed.v
                  /\ load_offset' = PayloadBase(jsonHeaderLength)
                  /\ res' = EmptyMap
                  /\ metadata_map' = EmptyMap
                  /\ i' = 1
                  /\ pc' = "load_items"
                  /\ err' = err
  /\ UNCHANGED <<in_stream, in_good, jsonHeaderLength, result>>
  /\ UNCHANGED saveVars

\* lines 133-151: one iteration of the loop over the items of the header
LoadItem ==
  /\ pc = "load_items"
  /\ i <= Len(Items(header))
  /\ LET item == Items(header)[i]
     IN IF IsMetadataKey(item.k)
          THEN LET mm == LoadMetadata(Items(item.v), metadata_map)
               IN IF mm.ok
                    THEN /\ metadata_map' = mm.v
                         /\ i' = i + 1
                         /\ UNCHANGED <<res, err, pc>>
                    ELSE /\ err' = mm.e
                         /\ pc' = "load_failed"
                         /\ UNCHANGED <<res, metadata_map, i>>
          ELSE LET loaded_array == LoadEntry(item.v, load_offset)
               IN IF loaded_array.ok
                    THEN /\ res' = MapInsert(res, item.k, loaded_array.v)
                         /\ i' = i + 1
                         /\ UNCHANGED <<metadata_map, err, pc>>
                    ELSE /\ err' = loaded_array.e
                         /\ pc' = "load_failed"
                         /\ UNCHANGED <<res, metadata_map, i>>
  /\ UNCHANGED <<in_stream, in_good, in_pos, jsonHeaderLength, header,
                 load_offset, result>>
  /\ UNCHANGED saveVars

\* line 152
LoadReturn ==
  /\ pc = "load_items"
  /\ i > Len(Items(header))
  /\ result' = [ok |-> TRUE, arrays |-> res, metadata |-> metadata_map]
  /\ pc' = "load_done"
  /\ UNCHANGED <<i, err, in_stream, in_good, in_pos, jsonHeaderLength, header,
                 load_offset, res, metadata_map>>
  /\ UNCHANGED saveVars

(***************************************************************************)
(* The inputs.                                                             *)
(***************************************************************************)
\* the names "a", "b\"" (one that dump() escapes) and "x"
KeyA == <<97>>
KeyB == <<98, 34>>
KeyX == <<120>>

\* an array of a shape and an element type, its bytes first+1, first+2, ...
ArrOf(t, shape, first) ==
  [shape |-> shape, dtype |-> t,
   data |-> [n \in 1..nbytes_of(shape, t) |-> (first + n) % 256]]

\* under "a": one element of every type, and an array without elements;
\* under "b\"": a matrix, a scalar, an array without elements;
\* under the reserved name: one byte
ArrPool(k) ==
  IF k = KeyA
    THEN {ArrOf(t, <<1>>, 10) : t \in Dtypes} \cup {ArrOf("float32", <<0>>, 0)}
  ELSE IF k = KeyB
    THEN {ArrOf("uint8", <<2, 1>>, 40), ArrOf("bool_", <<>>, 0),
          ArrOf("int16", <<0, 3>>, 0)}
  ELSE {ArrOf("uint8", <<1>>, 70)}

TensorNames == {KeyA, KeyB, K_metadata}

NamedArrays == UNION {{[key |-> k, arr |-> x] : x \in ArrPool(k)} : k \in TensorNames}

\* the unordered_maps of at most MaxTensors arrays, in every iteration order
ArrayMaps ==
  UNION {{s \in [1..n -> NamedArrays] :
            \A p, q \in 1..n : p # q => s[p].key # s[q].key} : n \in 0..MaxTensors}

\* "k", "f"; "v", "\"\\"
MetaKeys == {<<107>>, <<102>>}
MetaValues == {<<118>>, <<34, 92>>}

\* the metadata dictionaries of at most MaxMeta entries
MetaDicts ==
  UNION {[S -> MetaValues] : S \in {T \in SUBSET MetaKeys : Cardinality(T) <= MaxMeta}}

\* Containers written by others.
Absent == [t |-> "absent"]
WithField(j, k, v) == IF v.t = "absent" THEN j ELSE JsonSet(j, k, v)

Entry(d, s, o) ==
  WithField(WithField(WithField(JObj(<<>>), K_dtype, d), K_shape, s), K_data_offsets, o)

\* "Q4", "f32", "s"
ForeignDtypes == {JStr(ST_U8), JStr(<<81, 52>>), JStr(<<102, 51, 50>>), JInt(1), Absent}
ForeignShapes == {JArr(<<JInt(2)>>), JArr(<<JFloat(2, <<5>>)>>), JArr(<<JStr(KeyX)>>),
                  JInt(2), Absent}
ForeignOffsets == {JArr(<<JInt(2), JInt(4)>>), JArr(<<JInt(2)>>),
                   JArr(<<JInt(2), JInt(4), JInt(6)>>), JArr(<<>>),
                   JArr(<<JStr(KeyX)>>), Absent}
ForeignMetadata ==
  {JObj(<<[k |-> <<107>>, v |-> JStr(<<118>>)]>>), JNull, JArr(<<JStr(<<118>>)>>),
   JStr(<<118>>), JObj(<<>>), Absent}
    \cup {JObj(<<[k |-> <<107>>, v |-> JStr(<<118>>)], [k |-> <<110>>, v |-> x]>>) :
            x \in {JInt(7), JBool(TRUE), JNull, JArr(<<>>), JObj(<<>>),
                   JFloat(1, <<5>>), JStr(<<115>>)}}

\* a well-formed entry with a field the format does not know
GoodEntry == JsonSet(Entry(JStr(ST_U8), JArr(<<JInt(2)>>), JArr(<<JInt(0), JInt(2)>>)),
                     KeyX, JInt(1))

GoodHeader ==
  JsonSet(JsonSet(JNull, K_metadata, JObj(<<[k |-> <<107>>, v |-> JStr(<<118>>)]>>)),
          KeyA, GoodEntry)

ForeignHeaders ==
  {JsonSet(GoodHeader, <<98>>, Entry(d, s, o)) :
     d \in ForeignDtypes, s \in ForeignShapes, o \in ForeignOffsets}
  \cup {WithField(JsonSet(JNull, KeyA, GoodEntry), K_metadata, m) : m \in ForeignMetadata}
  \cup {JArr(<<>>), JInt(5), JObj(<<>>)}

Payload == <<1, 2, 3, 4>>

Container(len, text) == len \o text \o Payload

\* header-length fields: 0, 1, one byte short, three bytes beyond the end,
\* 99,999,999, 100,000,000, 100,000,001, 2^31, 2^32, 2^64 - 1
ForeignLengths ==
  {LittleEndian(n, 8) : n \in {0, 1, Len(Dump(GoodHeader)) - 1,
                              Len(Dump(GoodHeader)) + Len(Payload) + 3,
                              kMaxJsonHeaderLength - 1, kMaxJsonHeaderLength,
                              kMaxJsonHeaderLength + 1}}
  \cup {<<0, 0, 0, 128, 0, 0, 0, 0>>, <<0, 0, 0, 0, 1, 0, 0, 0>>,
        <<255, 255, 255, 255, 255, 255, 255, 255>>}

ForeignStreams ==
  {Container(LittleEndian(Len(Dump(h)), 8), Dump(h)) : h \in ForeignHeaders}
  \cup {Container(len, Dump(GoodHeader)) : len \in ForeignLengths}
  \cup {<<>>, <<5>>, <<1, 0, 0, 0, 0, 0, 0, 0, Ch.lbrace>>}

(***************************************************************************)
(* The specification: save_safetensors on every input, followed by         *)
(* load_safetensors on what it wrote; load_safetensors on the containers   *)
(* written by others.                                                      *)
(***************************************************************************)
Init ==
  /\ out_stream = <<>>
  /\ parent = JNull
  /\ offset = 0
  /\ i = 1
  /\ in_pos = 0
  /\ jsonHeaderLength = 0
  /\ header = JNull
  /\ load_offset = 0
  /\ res = EmptyMap
  /\ metadata_map = EmptyMap
  /\ result = NoResult
  /\ err = ""
  /\ \/ /\ pc = "save"
        /\ a \in ArrayMaps
        /\ metadata \in MetaDicts
        /\ out_good = TRUE
        /\ in_stream = <<>>
        /\ in_good = FALSE
     \/ /\ pc = "save"
        /\ a = <<>>
        /\ metadata = <<>>
        /\ out_good = FALSE
        /\ in_stream = <<>>
        /\ in_good = FALSE
     \/ /\ pc = "load"
        /\ a = <<>>
        /\ metadata = <<>>
        /\ out_good = FALSE
        /\ in_stream \in ForeignStreams
        /\ in_good = TRUE
     \/ /\ pc = "load"
        /\ a = <<>>
        /\ metadata = <<>>
        /\ out_good = FALSE
        /\ in_stream = <<>>
        /\ in_good = FALSE

Next ==
  \/ SaveBegin
  \/ SaveOffsets
  \/ SaveWriteHeader
  \/ SaveWriteData
  \/ SaveReturn
  \/ Reopen
  \/ LoadBegin
  \/ LoadParse
  \/ LoadItem
  \/ LoadReturn

Spec == Init /\ [][Next]_vars

(***************************************************************************)
(* What the properties speak of.                                           *)
(***************************************************************************)
SafetensorTags == {ST_F32, ST_F16, ST_BF16, ST_I64, ST_I32, ST_I16, ST_I8,
                   ST_U64, ST_U32, ST_U16, ST_U8, ST_BOOL, ST_C64}

\* save_safetensors wrote a container and has returned
Saved == pc = "save_done"

\* load_safetensors has ended on the container that save_safetensors wrote
RoundTripEnded ==
  /\ pc \in {"load_done", "load_failed"}
  /\ out_stream # <<>>
  /\ in_stream = out_stream

\* load_safetensors has ended on a container whose header it parsed
LoadEndedOnHeader ==
  /\ pc \in {"load_done", "load_failed"}
  /\ header.t = "object"

HasReservedName == \E n \in 1..Len(a) : a[n].key = K_metadata
HasEmptyArray == \E n \in 1..Len(a) : Len(a[n].arr.data) = 0

\* the header length in the first 8 bytes of what was written, the header
\* that follows it, and the position at which the payload starts
WrittenLength ==
  LET w == SubSeq(out_stream, 1, 8)
  IN w[1] + 256 * (w[2] + 256 * (w[3] + 256 * w[4]))
WrittenHeader == JsonParse(SubSeq(out_stream, 9, 8 + WrittenLength)).v
WrittenPayloadAt == 8 + WrittenLength

\* the data_offsets of the header entry of the n-th array of a
WrittenOffsets(n) ==
  LET e == Lookup(Lookup(WrittenHeader, a[n].key), K_data_offsets)
  IN [m \in 1..Len(e.es) |-> e.es[m].n]

\* the bytes of the first n arrays of a
RECURSIVE BytesBefore(_)
BytesBefore(n) == IF n = 0 THEN 0 ELSE BytesBefore(n - 1) + Len(a[n].arr.data)

\* the bytes a lazy array reads from the stream when it is evaluated
Realize(h) ==
  LET n == nbytes_of(h.shape, h.dtype)
  IN IF h.offset + n <= Len(in_stream)
       THEN SubSeq(in_stream, h.offset + 1, h.offset + n)
       ELSE <<-1>>

RoundTripHolds ==
  /\ result.ok
  /\ DOMAIN result.arrays = {a[n].key : n \in 1..Len(a)}
  /\ \A n \in 1..Len(a) :
       LET h == result.arrays[a[n].key]
       IN /\ h.shape = a[n].arr.shape
          /\ h.dtype = a[n].arr.dtype
          /\ Realize(h) = a[n].arr.data
  /\ result.metadata = metadata

(***************************************************************************)
(* C1.  As stated: for any mapping of names to non-empty arrays and any    *)
(* metadata dictionary, load_safetensors on what save_safetensors wrote    *)
(* returns the same names with the same shape, dtype and bytes, and the    *)
(* same metadata.  This fails for an array named "__metadata__".           *)
(***************************************************************************)
C1_RoundTripAnyName == RoundTripEnded => RoundTripHolds

\* C1, amended: the round trip holds for any mapping of names other than the
\* reserved "__metadata__" to non-empty arrays and any metadata dictionary.
C1_RoundTrip == (RoundTripEnded /\ ~HasReservedName) => RoundTripHolds

C1_Witness ==
  /\ RoundTripEnded
  /\ pc = "load_done"
  /\ Len(a) = 2
  /\ \E n \in 1..2 : a[n].key = KeyB
  /\ ~HasReservedName
  /\ metadata # <<>>

(***************************************************************************)
(* C2.  After a successful save the bytes written at positions             *)
(* 8 + L + start .. 8 + L + end of the stream, [start, end] the            *)
(* data_offsets of an array's header entry and L the header length in the  *)
(* first 8 bytes, are that array's bytes.                                  *)
(***************************************************************************)
C2_LayoutMatchesHeader ==
  Saved =>
    \A n \in 1..Len(a) :
      LET o == WrittenOffsets(n)
      IN /\ Len(o) = 2
         /\ WrittenPayloadAt + o[2] <= Len(out_stream)
         /\ SubSeq(out_stream, WrittenPayloadAt + o[1] + 1, WrittenPayloadAt + o[2])
              = a[n].arr.data

C2_Witness ==
  /\ Saved
  /\ Len(a) = 2
  /\ a[1].arr.data # a[2].arr.data

(***************************************************************************)
(* C3.  After save, in the writer's iteration order, the first entry       *)
(* starts at 0, every entry starts at the sum of the sizes of the arrays   *)
(* before it and spans its array's size, the last entry ends at the        *)
(* payload's length, and no two entries overlap.                           *)
(***************************************************************************)
C3_OffsetsContiguous ==
  Saved =>
    /\ \A n \in 1..Len(a) :
         /\ WrittenOffsets(n)[1] = BytesBefore(n - 1)
         /\ WrittenOffsets(n)[2] - WrittenOffsets(n)[1] = nbytes(a[n].arr)
    /\ Len(a) > 0 =>
         /\ WrittenOffsets(1)[1] = 0
         /\ WrittenOffsets(Len(a))[2] = Len(out_stream) - WrittenPayloadAt
    /\ \A p, q \in 1..Len(a) :
         p < q => WrittenOffsets(p)[2] <= WrittenOffsets(q)[1]

C3_Witness ==
  /\ Saved
  /\ Len(a) = 2
  /\ WrittenOffsets(2)[1] > 0

(***************************************************************************)
(* C4.  load_safetensors fails with InvalidHeaderLength, having read       *)
(* nothing after the 8 bytes of the length and parsed nothing, exactly     *)
(* when the length L is 0 or at least 100,000,000.                         *)
(***************************************************************************)
\* the 8 bytes of the length field, and what they say of L
LengthField == ZeroPad(SubSeq(in_stream, 1, Min(8, Len(in_stream))), 8)
LengthIsZero == \A k \in 1..8 : LengthField[k] = 0
LengthAtLeastLimit ==
  \/ \E k \in 5..8 : LengthField[k] # 0
  \/ LengthField[4] >= 6
  \/ LengthField[1] + 256 * (LengthField[2] + 256 * (LengthField[3] + 256 * LengthField[4]))
       >= 100000000

C4_HeaderLengthBounds ==
  (pc \in {"load_parse", "load_items", "load_done", "load_failed"}
     /\ err # "StreamUnavailable") =>
    /\ (err = "InvalidHeaderLength") <=> (LengthIsZero \/ LengthAtLeastLimit)
    /\ (err = "InvalidHeaderLength") => (in_pos <= 8 /\ header = JNull /\ ~result.ok)

C4_Witness ==
  /\ pc = "load_failed"
  /\ err = "InvalidHeaderLength"
  /\ LengthField = <<0, 225, 245, 5, 0, 0, 0, 0>>

(***************************************************************************)
(* C5.  If any array handed to save_safetensors has zero bytes, whatever   *)
(* its position, save fails with EmptyTensor and no byte has been written. *)
(***************************************************************************)
C5_EmptyTensorRejected ==
  /\ (HasEmptyArray /\ out_good) =>
       /\ pc \in {"save", "save_offsets", "save_failed"}
       /\ pc = "save_failed" => err = "EmptyTensor"
       /\ out_stream = <<>>
  /\ err = "EmptyTensor" => out_stream = <<>>

C5_Witness ==
  /\ pc = "save_failed"
  /\ err = "EmptyTensor"
  /\ Len(a) = 2
  /\ Len(a[1].arr.data) > 0
  /\ Len(a[2].arr.data) = 0

(***************************************************************************)
(* C6.  As stated: save_safetensors with an empty metadata dictionary      *)
(* writes a header whose "__metadata__" is the empty object {}, never      *)
(* null, and load_safetensors on it returns an empty metadata dictionary.  *)
(* The code writes null.                                                   *)
(***************************************************************************)
C6_EmptyMetadataObject ==
  (RoundTripEnded /\ metadata = <<>> /\ ~HasReservedName /\ ~HasEmptyArray) =>
    /\ HasKey(WrittenHeader, K_metadata)
    /\ Lookup(WrittenHeader, K_metadata) = JObj(<<>>)
    /\ result.ok
    /\ result.metadata = <<>>

(***************************************************************************)
(* C7.  If an entry of the header carries a dtype string that is not one   *)
(* of the 13 tags, load_safetensors returns no mapping, and, the header    *)
(* having no other defect, fails with UnknownTypeTag; the entries that     *)
(* were processed before the offending one are not returned.               *)
(***************************************************************************)
IsNumber(j) == j.t \in {"int", "float"}

\* an entry whose fields load_safetensors can convert
EntryConvertible(v) ==
  /\ v.t = "object"
  /\ HasKey(v, K_dtype) /\ Lookup(v, K_dtype).t = "string"
  /\ HasKey(v, K_shape) /\ Lookup(v, K_shape).t = "array"
  /\ \A m \in 1..Len(Lookup(v, K_shape).es) :
       IsNumber(Lookup(v, K_shape).es[m]) \/ Lookup(v, K_shape).es[m].t = "boolean"
  /\ HasKey(v, K_data_offsets) /\ Lookup(v, K_data_offsets).t = "array"
  /\ Lookup(v, K_data_offsets).es # <<>>
  /\ \A m \in 1..Len(Lookup(v, K_data_offsets).es) :
       IsNumber(Lookup(v, K_data_offsets).es[m])

UnknownTag(v) ==
  /\ v.t = "object"
  /\ HasKey(v, K_dtype)
  /\ Lookup(v, K_dtype).t = "string"
  /\ Lookup(v, K_dtype).s \notin SafetensorTags

\* the items of the header that are entries
HeaderEntries == {n \in 1..Len(header.ms) : header.ms[n].k # K_metadata}

MetadataAllStrings ==
  HasKey(header, K_metadata) =>
    \A n \in 1..Len(Items(Lookup(header, K_metadata))) :
      Items(Lookup(header, K_metadata))[n].v.t = "string"

MetadataIsObject ==
  /\ HasKey(header, K_metadata)
  /\ Lookup(header, K_metadata).t = "object"

EntriesLoadable ==
  \A n \in HeaderEntries :
    /\ EntryConvertible(header.ms[n].v)
    /\ ~UnknownTag(header.ms[n].v)

C8_NonStringsCoerced ==
  (LoadEndedOnHeader /\ MetadataIsObject /\ EntriesLoadable) =>
    /\ result.ok
    /\ \A n \in 1..Len(Lookup(header, K_metadata).ms) :
         Lookup(header, K_metadata).ms[n].k \in DOMAIN result.metadata

\* C8, amended: every key of the header's "__metadata__" object whose value
\* is a JSON string is returned mapped to that string; a value that is not
\* a JSON string (number, boolean, null, array, object) is not coerced: the
\* load fails with a type error and returns nothing.
C8_NonStringsRejected ==
  (LoadEndedOnHeader /\ MetadataIsObject /\ EntriesLoadable) =>
    IF MetadataAllStrings
      THEN /\ result.ok
           /\ DOMAIN result.metadata =
                {Lookup(header, K_metadata).ms[n].k :
                   n \in 1..Len(Lookup(header, K_metadata).ms)}
           /\ \A n \in 1..Len(Lookup(header, K_metadata).ms) :
                result.metadata[Lookup(header, K_metadata).ms[n].k]
                  = Lookup(header, K_metadata).ms[n].v.s
      ELSE /\ pc = "load_failed"
           /\ err = "TypeMismatch"
           /\ ~result.ok

C8_Witness ==
  /\ LoadEndedOnHeader
  /\ MetadataIsObject
  /\ EntriesLoadable
  /\ \E n \in 1..Len(Lookup(header, K_metadata).ms) :
       Lookup(header, K_metadata).ms[n].v = JInt(7)
  /\ pc = "load_failed"
  /\ err = "TypeMismatch"

(***************************************************************************)
(* C9.  As stated: an entry of the header that lacks dtype, shape or       *)
(* data_offsets, whose data_offsets is not a sequence of 2 elements, or    *)
(* whose shape has an entry that is not an integer, makes the load fail    *)
(* and never yields an array in the returned mapping.  The code takes      *)
(* data_offsets of 1 or 3 elements and shape entries with a fraction.      *)
(***************************************************************************)
EntryValid(v) ==
  /\ v.t = "object"
  /\ HasKey(v, K_dtype) /\ HasKey(v, K_shape) /\ HasKey(v, K_data_offsets)
  /\ Lookup(v, K_data_offsets).t = "array"
  /\ Len(Lookup(v, K_data_offsets).es) = 2
  /\ Lookup(v, K_shape).t = "array"
  /\ \A m \in 1..Len(Lookup(v, K_shape).es) : Lookup(v, K_shape).es[m].t = "int"

C9_EntriesValidated ==
  LoadEndedOnHeader =>
    /\ (\E n \in HeaderEntries : ~EntryValid(header.ms[n].v)) => pc = "load_failed"
    /\ result.ok =>
         \A n \in HeaderEntries :
           header.ms[n].k \in DOMAIN result.arrays => EntryValid(header.ms[n].v)

(***************************************************************************)
(* C10.  When an array handed to save_safetensors is named "__metadata__", *)
(* its entry takes the place of the metadata dictionary under the header   *)
(* key "__metadata__", its bytes are written to the payload all the same,  *)
(* and load_safetensors never returns an array under that name.            *)
(***************************************************************************)
C10_ReservedNameCollision ==
  /\ (Saved /\ HasReservedName) =>
       LET n == CHOOSE m \in 1..Len(a) : a[m].key = K_metadata
           e == Lookup(WrittenHeader, K_metadata)
           o == WrittenOffsets(n)
       IN /\ Lookup(e, K_dtype) = JStr(dtype_to_safetensor_str(a[n].arr.dtype).v)
          /\ Lookup(e, K_shape) =
               JArr([m \in 1..Len(a[n].arr.shape) |-> JInt(a[n].arr.shape[m])])
          /\ \A k \in DOMAIN metadata : ~HasKey(e, k)
          /\ \A m \in 1..Len(WrittenHeader.ms) :
               WrittenHeader.ms[m].k \in {a[q].key : q \in 1..Len(a)}
          /\ SubSeq(out_stream, WrittenPayloadAt + o[1] + 1, WrittenPayloadAt + o[2])
               = a[n].arr.data
  /\ K_metadata \notin DOMAIN res
  /\ result.ok => K_metadata \notin DOMAIN result.arrays

C10_Witness ==
  /\ RoundTripEnded
  /\ HasReservedName
  /\ Len(a) = 2
  /\ metadata # <<>>
  /\ \E k \in DOMAIN metadata : ~HasKey(Lookup(header, K_metadata), k)
=============================================================================
